---- MODULE Spec2Model ----
(***************************************************************************)
(* Model of run_meta_analysis.py: one run of main() over an extracted      *)
(* datapoints table: load, clean, group by outcome, Hedges' g per study,    *)
(* fixed-effect pooling, text report and forest-plot images.                *)
(*                                                                         *)
(* Numbers.  A value is a pair <<n, d>>: d > 0 is the rational n/d in       *)
(* lowest terms, <<0,0>> is NaN, <<1,0>> is +inf and <<-1,0>> is -inf.      *)
(* Arithmetic is exact (no rounding); the IEEE rules for NaN and the       *)
(* infinities are kept.  np.sqrt(x) is kept as the radical [sq |-> x]; its  *)
(* value is taken only where x is a perfect square (sd_pooled).            *)
(*                                                                         *)
(* Spec is one invocation of the script, SpecTwice two invocations in a     *)
(* row on the same files, SpecChanged two invocations between which the     *)
(* input table loses rows, SpecCalc a call of HedgesJ, of the pooled        *)
(* standard error or of PubMedSearcher.search_merge on its own, and         *)
(* SpecDownload a call of DOIDownloader.download_doi or download_dois_batch.*)
(***************************************************************************)
EXTENDS Integers, Sequences, FiniteSets, TLC

\* ------------------------------------------------------------------ bounds
\* Largest number of rows of the input table.
MaxRows == 4

\* Largest number of rows of the table of a run that is repeated.
MaxRerunRows == 3

\* Largest sample size of an arm in a call of HedgesJ on its own.
MaxSampleSize == 7

\* Largest number of studies of a group in a call of PooledSe on its own.
MaxStudies == 3

\* Largest number of result lists in a call of search_merge, and largest
\* number of articles in one of them.
MaxLists == 2
MaxArticles == 2

\* Largest number of DOIs in a call of download_dois_batch.
MaxDois == 2

\* ------------------------------------------------------- exact arithmetic
NaN == <<0, 0>>
PosInf == <<1, 0>>
NegInf == <<-1, 0>>
Zero == <<0, 1>>
One == <<1, 1>>

Abs(z) == IF z < 0 THEN -z ELSE z

Sgn(z) == IF z < 0 THEN -1 ELSE IF z > 0 THEN 1 ELSE 0

RECURSIVE Gcd(_, _)
Gcd(a, b) == IF b = 0 THEN a ELSE Gcd(b, a % b)

\* The rational n/d (d # 0) in lowest terms with a positive denominator.
Norm(n, d) ==
    LET g == Gcd(Abs(n), Abs(d))
    IN  <<(Sgn(d) * n) \div g, Abs(d) \div g>>

Num(z) == <<z, 1>>

IsNaN(x) == x[2] = 0 /\ x[1] = 0

IsInf(x) == x[2] = 0 /\ x[1] # 0

IsFinite(x) == x[2] # 0

IsZero(x) == x[2] # 0 /\ x[1] = 0

Neg(x) == <<-x[1], x[2]>>

Add(x, y) ==
    IF IsNaN(x) \/ IsNaN(y) THEN NaN
    ELSE IF IsInf(x) /\ IsInf(y) THEN (IF x[1] = y[1] THEN x ELSE NaN)
    ELSE IF IsInf(x) THEN x
    ELSE IF IsInf(y) THEN y
    ELSE LET g == Gcd(x[2], y[2])
         IN  Norm(x[1] * (y[2] \div g) + y[1] * (x[2] \div g), (x[2] \div g) * y[2])

Sub(x, y) == Add(x, Neg(y))

Mul(x, y) ==
    IF IsNaN(x) \/ IsNaN(y) THEN NaN
    ELSE IF IsInf(x) \/ IsInf(y)
         THEN (IF x[1] = 0 \/ y[1] = 0 THEN NaN ELSE <<Sgn(x[1]) * Sgn(y[1]), 0>>)
    ELSE LET g1 == Gcd(Abs(x[1]), y[2])
             g2 == Gcd(Abs(y[1]), x[2])
         IN  Norm((x[1] \div g1) * (y[1] \div g2), (x[2] \div g2) * (y[2] \div g1))

\* IEEE division (numpy scalars): x/0 is +-inf, 0/0 is NaN; no signed zero.
Div(x, y) ==
    IF IsNaN(x) \/ IsNaN(y) THEN NaN
    ELSE IF IsInf(y) THEN (IF IsInf(x) THEN NaN ELSE Zero)
    ELSE IF IsZero(y) THEN (IF x[1] = 0 THEN NaN ELSE <<Sgn(x[1]), 0>>)
    ELSE IF IsInf(x) THEN <<Sgn(x[1]) * Sgn(y[1]), 0>>
    ELSE Mul(x, Norm(y[2], y[1]))

\* x < y; every comparison with NaN is false.
Lt(x, y) ==
    IF IsNaN(x) \/ IsNaN(y) THEN FALSE
    ELSE IF IsInf(x) THEN x[1] < 0 /\ y # x
    ELSE IF IsInf(y) THEN y[1] > 0
    ELSE x[1] * y[2] < y[1] * x[2]

Le(x, y) == ~IsNaN(x) /\ ~IsNaN(y) /\ ~Lt(y, x)

\* np.sqrt: the radical of x, kept symbolically.
NpSqrt(x) == [sq |-> x]

\* The radical is NaN when its radicand is NaN or negative.
RootIsNaN(r) == IsNaN(r.sq) \/ Lt(r.sq, Zero)

RootIsFinite(r) == ~RootIsNaN(r) /\ IsFinite(r.sq)

RootIsZero(r) == IsZero(r.sq)

RootIsPos(r) == Lt(Zero, r.sq)

\* r ** 2
RootSquare(r) == IF RootIsNaN(r) THEN NaN ELSE r.sq

Isqrt(n) == CHOOSE r \in 0..n : r * r = n

\* The value of a radical whose radicand is a perfect square.
RootValue(r) ==
    IF RootIsNaN(r) THEN NaN
    ELSE IF IsInf(r.sq) THEN PosInf
    ELSE <<Isqrt(r.sq[1]), Isqrt(r.sq[2])>>

\* ------------------------------------------------------------ input table
\* Outcome labels of the input table.
Outcomes == {"ldl", "hdl"}

\* The six essential columns, in the order calculate_smd takes them.
essential_cols ==
    <<"sample_size_intervention", "intervention_post_mean", "intervention_post_sd",
      "sample_size_control", "control_post_mean", "control_post_sd">>

\* A raw CSV cell: a number, or text that does not parse as one.
Cell(k) == <<"num", k>>

Junk == <<"text", 0>>

\* The measurements a row can carry (n1, m1, sd1, n2, m2, sd2).  Every
\* pooled variance is a perfect square.
Ordinary == <<Cell(2), Cell(1), Cell(1), Cell(2), Cell(0), Cell(1)>>

\* no variance in either arm: sd_pooled = 0
NoVariance == <<Cell(2), Cell(1), Cell(0), Cell(2), Cell(0), Cell(0)>>

\* a cell that does not parse as a number
Unparsed == <<Cell(2), Cell(1), Junk, Cell(2), Cell(0), Cell(1)>>

\* one patient in the intervention arm
OnePatientArm == <<Cell(1), Cell(0), Cell(1), Cell(3), Cell(1), Cell(1)>>

\* one patient in each arm: n1 + n2 - 2 = 0
OnePatientEach == <<Cell(1), Cell(1), Cell(1), Cell(1), Cell(0), Cell(1)>>

\* an empty intervention arm: n1 * n2 = 0
EmptyArm == <<Cell(0), Cell(1), Cell(1), Cell(3), Cell(0), Cell(1)>>

Measurements == {Ordinary, NoVariance, Unparsed, OnePatientArm, OnePatientEach, EmptyArm}

\* The rows of the input: the first outcome with every measurement that has
\* a variance, the second with the ordinary and the no-variance study.
RawRows ==
    { [outcome_name |-> "ldl", cells |-> m] : m \in Measurements \ {NoVariance} }
        \cup { [outcome_name |-> "hdl", cells |-> m] : m \in {Ordinary, NoVariance} }

RECURSIVE SeqsUpTo(_, _)
SeqsUpTo(S, n) ==
    IF n = 0 THEN {<<>>}
    ELSE LET shorter == SeqsUpTo(S, n - 1)
         IN  shorter \cup { Append(s, x) : s \in { t \in shorter : Len(t) = n - 1 }, x \in S }

Tables == SeqsUpTo(RawRows, MaxRows)

\* ------------------------------------------------------------ calculate_smd
\* calculate_smd(n1, m1, sd1, n2, m2, sd2).  A division whose operands are
\* Python scalars raises ZeroDivisionError on a zero divisor; with numpy
\* scalars it gives NaN or an infinity.  raised = TRUE is the exception.
\* Variant of HedgesJ that takes n1 + n2 for the degrees of freedom.
HedgesJ_TotalN(n1, n2) ==
    Sub(One, Div(Num(3), Sub(Mul(Num(4), Add(n1, n2)), One)))

\* j = 1 - (3 / (4 * (n1 + n2 - 2) - 1))
HedgesJ(n1, n2) ==
    Sub(One, Div(Num(3), Sub(Mul(Num(4), Sub(Add(n1, n2), Num(2))), One)))

calculate_smd(n1, m1, sd1, n2, m2, sd2, scalarKind) ==
    LET dof == Sub(Add(n1, n2), Num(2))
        sd_pooled == NpSqrt(Div(Add(Mul(Sub(n1, One), Mul(sd1, sd1)),
                                    Mul(Sub(n2, One), Mul(sd2, sd2))), dof))
        d == Div(Sub(m1, m2), RootValue(sd_pooled))
        jden == Sub(Mul(Num(4), dof), One)
        j == HedgesJ(n1, n2)
        g == Mul(j, d)
        se_g == NpSqrt(Add(Div(Add(n1, n2), Mul(n1, n2)),
                           Div(Mul(g, g), Mul(Num(2), Add(n1, n2)))))
        Raise == [raised |-> TRUE, g |-> NaN, se_g |-> NpSqrt(NaN)]
    IN  IF scalarKind = "python" /\ IsZero(dof) THEN Raise
        ELSE IF RootIsZero(sd_pooled) THEN [raised |-> FALSE, g |-> Zero, se_g |-> NpSqrt(Zero)]
        ELSE IF scalarKind = "python" /\ (IsZero(jden) \/ IsZero(Mul(n1, n2))) THEN Raise
        ELSE [raised |-> FALSE, g |-> g, se_g |-> se_g]

\* ------------------------------------------------------------------- state
VARIABLES
    pc,               \* position of main(): start, load, clean, group, single, meta, filter, plot, plotted, done, crashed
    result,           \* how the run ended: "", data_unavailable, single_only, completed, exception, plot_exception
    fileStatus,       \* _extracted_datapoints.csv: missing, unparseable or ok
    table,            \* the rows of the CSV file
    scalars,          \* kind of the scalars DataFrame.apply hands to calculate_smd
    priorReport,      \* _meta_analysis_output.txt as the run found it
    report,           \* _meta_analysis_output.txt on disk
    buffer,           \* lines written to output_file and not flushed yet
    console,          \* lines printed to stdout
    images,           \* image files on disk
    df,               \* the loaded DataFrame
    df_clean,         \* df after to_numeric and dropna
    common_outcomes,  \* outcomes the run iterates over
    i,                \* position in the outcome loop
    single_outcomes,  \* outcomes listed by the single-study branch
    outcome_df,       \* the rows of the outcome being processed, with their derived columns
    pooled,           \* outcome -> pooled_g, pooled_se and the rows they were computed from
    firstRun,         \* <<>> in the first invocation; then what the first invocation left
    call,             \* a call of a function of the module on its own: <<>> or its arguments
    ret,              \* <<>> or what the call returned
    download_dir,     \* the files of the download directory of a DOIDownloader, with what wrote them
    attempts,         \* the calls of the download methods so far, with how each ended
    results           \* the list results of download_dois_batch

vars ==
    <<pc, result, fileStatus, table, scalars, priorReport, report, buffer, console,
      images, df, df_clean, common_outcomes, single_outcomes, i, outcome_df, pooled,
      firstRun, call, ret, download_dir, attempts, results>>

\* ---------------------------------------------------------------- helpers
\* A line of output: the outcome names it prints and the labels of the
\* records it prints.
Line(kind, outcomes, rows) == [kind |-> kind, outcomes |-> outcomes, rows |-> rows]

\* tee_print()
Blank == Line("blank", <<>>, <<>>)

\* f"_meta_analysis_forest_{outcome_name}.png"
ChartFilename(outcome_name) == <<"_meta_analysis_forest_", outcome_name, ".png">>

\* Variant of to_numeric that turns unparseable text into 0.
to_numeric_Zero(cell) == IF cell[1] = "num" THEN Num(cell[2]) ELSE Zero

\* pd.to_numeric(cell, errors='coerce')
to_numeric(cell) == IF cell[1] = "num" THEN Num(cell[2]) ELSE NaN

\* pd.read_csv: one record per row, labelled by its position.
read_csv(t) ==
    [k \in 1..Len(t) |-> [index |-> k, outcome_name |-> t[k].outcome_name, cells |-> t[k].cells]]

\* df[col] = pd.to_numeric(df[col], errors='coerce') for the essential columns.
Coerce(frame) ==
    [k \in 1..Len(frame) |->
        [index |-> frame[k].index, outcome_name |-> frame[k].outcome_name,
         vals |-> [c \in 1..Len(essential_cols) |-> to_numeric(frame[k].cells[c])]]]

HasNa(row) == \E c \in 1..Len(essential_cols) : IsNaN(row.vals[c])

\* Variant of DropNa that drops nothing.
DropNa_KeepAll(frame) == frame

\* df.dropna(subset=essential_cols)
DropNa(frame) == SelectSeq(frame, LAMBDA row : ~HasNa(row))

\* The rows of a frame with the given outcome name, in frame order.
RowsOf(frame, o) == SelectSeq(frame, LAMBDA row : row.outcome_name = o)

Labels(frame) == [k \in 1..Len(frame) |-> frame[k].index]

\* Series.unique(): the distinct outcome names in order of first appearance.
RECURSIVE UniqueOutcomes(_)
UniqueOutcomes(frame) ==
    IF frame = <<>> THEN <<>>
    ELSE LET front == SubSeq(frame, 1, Len(frame) - 1)
             last == frame[Len(frame)].outcome_name
             u == UniqueOutcomes(front)
         IN  IF \E k \in 1..Len(u) : u[k] = last THEN u ELSE Append(u, last)

\* Variant of CommonOutcomes without unique().
CommonOutcomes_Repeated(frame) ==
    LET kept == SelectSeq(frame, LAMBDA row : Len(RowsOf(frame, row.outcome_name)) > 1)
    IN  [k \in 1..Len(kept) |-> kept[k].outcome_name]

\* Variant of CommonOutcomes with len(x) > 0.
CommonOutcomes_AtLeastOne(frame) == UniqueOutcomes(frame)

\* groupby('outcome_name').filter(lambda x: len(x) > 1)['outcome_name'].unique()
CommonOutcomes(frame) ==
    UniqueOutcomes(SelectSeq(frame, LAMBDA row : Len(RowsOf(frame, row.outcome_name)) > 1))

\* The values a cleaned or uncleaned row can hold, and the scalar kinds.
CoercedMeasurements ==
    { [c \in 1..Len(essential_cols) |-> to_numeric(m[c])] : m \in Measurements }

ScalarKinds == {"python", "numpy"}

\* calculate_smd tabulated over the measurements of the input.
SmdTable ==
    { [vals |-> v, kind |-> s, smd |-> calculate_smd(v[1], v[2], v[3], v[4], v[5], v[6], s)] :
        v \in CoercedMeasurements, s \in ScalarKinds }

SmdOf(vals, scalarKind) ==
    (CHOOSE e \in SmdTable : e.vals = vals /\ e.kind = scalarKind).smd

\* outcome_df.apply(calculate_smd, axis=1) for one row.
SmdOfRow(row, scalarKind) == SmdOf(row.vals, scalarKind)

\* outcome_df[['g', 'se_g']] = ...: the rows with their effect sizes.
WithSmd(frame, scalarKind) ==
    [k \in 1..Len(frame) |->
        [index |-> frame[k].index, outcome_name |-> frame[k].outcome_name,
         vals |-> frame[k].vals,
         g |-> SmdOfRow(frame[k], scalarKind).g,
         se_g |-> SmdOfRow(frame[k], scalarKind).se_g]]

\* Variant of valid_smd without np.isfinite.
valid_smd_NoFiniteCheck(row) == ~RootIsNaN(row.se_g) /\ RootIsPos(row.se_g)

\* Variant of valid_smd with se_g >= 0.
valid_smd_NonNegative(row) ==
    ~RootIsNaN(row.se_g) /\ RootIsFinite(row.se_g) /\ ~Lt(row.se_g.sq, Zero)

\* se_g.notna() & np.isfinite(se_g) & (se_g > 0)
valid_smd(row) == ~RootIsNaN(row.se_g) /\ RootIsFinite(row.se_g) /\ RootIsPos(row.se_g)

\* outcome_df[valid_smd]
ValidRows(frame) == SelectSeq(frame, valid_smd)

\* Variants of Insufficient: len(outcome_df) < 1, and never.
Insufficient_LessThanOne(frame) == Len(frame) < 1

Insufficient_Never(frame) == FALSE

\* if len(outcome_df) < 2
Insufficient(frame) == Len(frame) < 2

\* w = 1 / se_g ** 2
Weight(row) == Div(One, RootSquare(row.se_g))

\* np.sum
RECURSIVE SumSeq(_)
SumSeq(xs) == IF xs = <<>> THEN Zero ELSE Add(xs[1], SumSeq(Tail(xs)))

\* Variant of PooledG without the division by the sum of the weights.
PooledG_Undivided(frame) ==
    SumSeq([k \in 1..Len(frame) |-> Mul(Weight(frame[k]), frame[k].g)])

\* np.sum(w * g) / np.sum(w)
PooledG(frame) ==
    Div(SumSeq([k \in 1..Len(frame) |-> Mul(Weight(frame[k]), frame[k].g)]),
        SumSeq([k \in 1..Len(frame) |-> Weight(frame[k])]))

\* Variant of PooledSe without the reciprocal.
PooledSe_SumOfWeights(frame) == NpSqrt(SumSeq([k \in 1..Len(frame) |-> Weight(frame[k])]))

\* np.sqrt(1 / np.sum(w))
PooledSe(frame) == NpSqrt(Div(One, SumSeq([k \in 1..Len(frame) |-> Weight(frame[k])])))

\* A row on which calculate_smd divides by zero.
ZeroDivisor(row) ==
    \/ IsZero(Sub(Add(row.vals[1], row.vals[4]), Num(2)))
    \/ IsZero(Mul(row.vals[1], row.vals[4]))

\* _meta_analysis_output.txt as an earlier invocation left it.
PriorReport == <<Line("earlier_report", <<>>, <<>>)>>

\* ------------------------------------------------------------------- Init
Init ==
    /\ pc = "start"
    /\ result = ""
    /\ fileStatus \in {"missing", "unparseable", "ok"}
    /\ table \in (IF fileStatus = "ok" THEN Tables ELSE {<<>>})
    \* the scalar kind is only observable on a row with a zero divisor
    /\ scalars \in (IF \E k \in 1..Len(table) : ZeroDivisor(Coerce(read_csv(table))[k])
                    THEN ScalarKinds ELSE {"python"})
    /\ priorReport = PriorReport
    /\ report = priorReport
    /\ buffer = <<>>
    /\ console = <<>>
    /\ images = {}
    /\ df = <<>>
    /\ df_clean = <<>>
    /\ common_outcomes = <<>>
    /\ single_outcomes = <<>>
    /\ i = 0
    /\ outcome_df = <<>>
    /\ pooled = <<>>
    /\ firstRun = <<>>
    /\ call = <<>>
    /\ ret = <<>>
    /\ download_dir = {}
    /\ attempts = <<>>
    /\ results = <<>>

\* ---------------------------------------------------------------- actions
\* Variant of Tee that prints to output_file only.
Tee_FileOnly(lines) ==
    /\ console' = console
    /\ report' = report \o buffer \o lines
    /\ buffer' = <<>>

\* Variant of Tee without the flush.
Tee_NoFlush(lines) ==
    /\ console' = console \o lines
    /\ report' = report
    /\ buffer' = buffer \o lines

\* tee_print for each of the lines: print to the console, print to
\* output_file, flush.  The flush also puts the pending writes on disk.
Tee(lines) ==
    /\ console' = console \o lines
    /\ report' = report \o buffer \o lines
    /\ buffer' = <<>>

\* Variant of OpenReport that opens the file for appending.
OpenReport_Append ==
    /\ pc = "start"
    /\ pc' = "load"
    /\ UNCHANGED <<result, fileStatus, table, scalars, priorReport, firstRun, call, ret, download_dir, attempts, results, report, buffer, console,
                   images, df, df_clean, common_outcomes, single_outcomes, i, outcome_df, pooled>>

\* Variant of OpenReport that removes the images left by earlier runs.
OpenReport_RemovesImages ==
    /\ pc = "start"
    /\ report' = <<>>
    /\ buffer' = <<>>
    /\ images' = {}
    /\ pc' = "load"
    /\ UNCHANGED <<result, fileStatus, table, scalars, priorReport, firstRun, call, ret, download_dir, attempts, results, console,
                   df, df_clean, common_outcomes, single_outcomes, i, outcome_df, pooled>>

\* with open(output_filename, 'w') as output_file: the file is truncated.
OpenReport ==
    /\ pc = "start"
    /\ report' = <<>>
    /\ buffer' = <<>>
    /\ pc' = "load"
    /\ UNCHANGED <<result, fileStatus, table, scalars, priorReport, firstRun, call, ret, download_dir, attempts, results, console, images,
                   df, df_clean, common_outcomes, single_outcomes, i, outcome_df, pooled>>

\* pd.read_csv raises FileNotFoundError: message, return.
LoadMissing ==
    /\ pc = "load"
    /\ fileStatus = "missing"
    /\ Tee(<<Line("error_file_not_found", <<>>, <<>>)>>)
    /\ pc' = "done"
    /\ result' = "data_unavailable"
    /\ UNCHANGED <<fileStatus, table, scalars, priorReport, firstRun, call, ret, download_dir, attempts, results, images,
                   df, df_clean, common_outcomes, single_outcomes, i, outcome_df, pooled>>

\* pd.read_csv raises another exception: message, return.
LoadUnparseable ==
    /\ pc = "load"
    /\ fileStatus = "unparseable"
    /\ Tee(<<Line("error_reading_csv", <<>>, <<>>)>>)
    /\ pc' = "done"
    /\ result' = "data_unavailable"
    /\ UNCHANGED <<fileStatus, table, scalars, priorReport, firstRun, call, ret, download_dir, attempts, results, images,
                   df, df_clean, common_outcomes, single_outcomes, i, outcome_df, pooled>>

\* pd.read_csv succeeds: the five lines about the loaded table.
LoadOk ==
    /\ pc = "load"
    /\ fileStatus = "ok"
    /\ df' = read_csv(table)
    /\ Tee(<<Line("loaded_rows", <<>>, Labels(df')),
             Line("columns", <<>>, <<>>),
             Line("outcomes_available", UniqueOutcomes(df'), <<>>),
             Line("studies", <<>>, Labels(df')),
             Blank>>)
    /\ pc' = "clean"
    /\ UNCHANGED <<result, fileStatus, table, scalars, priorReport, firstRun, call, ret, download_dir, attempts, results, images,
                   df_clean, common_outcomes, single_outcomes, i, outcome_df, pooled>>

\* to_numeric, dropna, and the return on an empty cleaned table.
Clean ==
    /\ pc = "clean"
    /\ df_clean' = DropNa(Coerce(df))
    /\ IF Len(df_clean') = 0
       THEN /\ Tee(<<Line("after_cleaning", <<>>, Labels(df_clean')),
                     Line("no_complete_data", <<>>, <<>>)>>)
            /\ pc' = "done"
            /\ result' = "data_unavailable"
       ELSE /\ Tee(<<Line("after_cleaning", <<>>, Labels(df_clean'))>>)
            /\ pc' = "group"
            /\ UNCHANGED result
    /\ UNCHANGED <<fileStatus, table, scalars, priorReport, firstRun, call, ret, download_dir, attempts, results, images,
                   df, common_outcomes, single_outcomes, i, outcome_df, pooled>>

\* common_outcomes; with none, the start of the single-study branch; with
\* some, the header of the charts section (written, not flushed).
Group ==
    /\ pc = "group"
    /\ common_outcomes' = CommonOutcomes(df_clean)
    /\ i' = 1
    /\ IF Len(common_outcomes') = 0
       THEN /\ single_outcomes' = UniqueOutcomes(df_clean)
            /\ Tee(<<Line("outcomes_with_multiple_studies", common_outcomes', <<>>),
                     Blank,
                     Line("no_outcomes_with_multiple_studies", <<>>, <<>>),
                     Line("single_study_outcomes_available", single_outcomes', <<>>)>>)
            /\ pc' = "single"
       ELSE /\ console' = console \o <<Line("outcomes_with_multiple_studies", common_outcomes', <<>>),
                                       Blank>>
            /\ report' = report \o buffer \o <<Line("outcomes_with_multiple_studies", common_outcomes', <<>>),
                                               Blank>>
            /\ buffer' = <<Line("rule", <<>>, <<>>),
                           Line("generated_charts", <<>>, <<>>),
                           Line("rule", <<>>, <<>>)>>
            /\ pc' = "meta"
            /\ UNCHANGED single_outcomes
    /\ UNCHANGED <<result, fileStatus, table, scalars, priorReport, firstRun, call, ret, download_dir, attempts, results, images,
                   df, df_clean, outcome_df, pooled>>

\* One iteration of the single-study loop: header, raw values, blank line.
SingleStudy ==
    /\ pc = "single"
    /\ i <= Len(single_outcomes)
    /\ LET outcome == single_outcomes[i]
           rows == RowsOf(df_clean, outcome)
       IN  Tee(<<Line("single_study_analysis", <<outcome>>, <<>>),
                 Line("raw_values", <<>>, Labels(rows)),
                 Blank>>)
    /\ i' = i + 1
    /\ UNCHANGED <<pc, result, fileStatus, table, scalars, priorReport, firstRun, call, ret, download_dir, attempts, results, images,
                   df, df_clean, common_outcomes, single_outcomes, outcome_df, pooled>>

\* The return after the single-study loop (output_file is closed).
SingleDone ==
    /\ pc = "single"
    /\ i > Len(single_outcomes)
    /\ report' = report \o buffer
    /\ buffer' = <<>>
    /\ pc' = "done"
    /\ result' = "single_only"
    /\ UNCHANGED <<fileStatus, table, scalars, priorReport, firstRun, call, ret, download_dir, attempts, results, console, images,
                   df, df_clean, common_outcomes, single_outcomes, i, outcome_df, pooled>>

\* The start of an iteration of the outcome loop in which calculate_smd
\* raises ZeroDivisionError: the exception leaves main(), and the with
\* statement closes output_file.
MetaRaise ==
    /\ pc = "meta"
    /\ i <= Len(common_outcomes)
    /\ LET outcome == common_outcomes[i]
           rows == RowsOf(df_clean, outcome)
       IN  /\ \E k \in 1..Len(rows) : SmdOfRow(rows[k], scalars).raised
           /\ Tee(<<Line("meta_analysis", <<outcome>>, <<>>)>>)
    /\ pc' = "crashed"
    /\ result' = "exception"
    /\ UNCHANGED <<fileStatus, table, scalars, priorReport, firstRun, call, ret, download_dir, attempts, results, images,
                   df, df_clean, common_outcomes, single_outcomes, i, outcome_df, pooled>>

\* Variant of MetaSmd that works on the rows of df_clean in place (without
\* the copy): the rows of the other outcomes are lost from df_clean.
MetaSmd_InPlace ==
    /\ pc = "meta"
    /\ i <= Len(common_outcomes)
    /\ \A k \in 1..Len(RowsOf(df_clean, common_outcomes[i])) :
           ~SmdOfRow(RowsOf(df_clean, common_outcomes[i])[k], scalars).raised
    /\ outcome_df' = WithSmd(RowsOf(df_clean, common_outcomes[i]), scalars)
    /\ df_clean' = RowsOf(df_clean, common_outcomes[i])
    /\ Tee(<<Line("meta_analysis", <<common_outcomes[i]>>, <<>>)>>)
    /\ pc' = "filter"
    /\ UNCHANGED <<result, fileStatus, table, scalars, priorReport, firstRun, call, ret, download_dir, attempts, results, images,
                   df, common_outcomes, single_outcomes, i, pooled>>

\* The start of an iteration: the header line, and g and se_g of every row
\* of the outcome.
MetaSmd ==
    /\ pc = "meta"
    /\ i <= Len(common_outcomes)
    /\ LET outcome == common_outcomes[i]
           rows == RowsOf(df_clean, outcome)
       IN  /\ \A k \in 1..Len(rows) : ~SmdOfRow(rows[k], scalars).raised
           /\ outcome_df' = WithSmd(rows, scalars)
           /\ Tee(<<Line("meta_analysis", <<outcome>>, <<>>)>>)
    /\ pc' = "filter"
    /\ UNCHANGED <<result, fileStatus, table, scalars, priorReport, firstRun, call, ret, download_dir, attempts, results, images,
                   df, df_clean, common_outcomes, single_outcomes, i, pooled>>

\* The valid_smd filter leaves fewer than two rows: message, continue.
MetaInsufficient ==
    /\ pc = "filter"
    /\ outcome_df' = ValidRows(outcome_df)
    /\ Insufficient(outcome_df')
    /\ Tee(<<Line("insufficient_valid_data", <<common_outcomes[i]>>, <<>>)>>)
    /\ i' = i + 1
    /\ pc' = "meta"
    /\ UNCHANGED <<result, fileStatus, table, scalars, priorReport, firstRun, call, ret, download_dir, attempts, results, images,
                   df, df_clean, common_outcomes, single_outcomes, pooled>>

\* The valid_smd filter leaves two rows or more: weights, pooled_g,
\* pooled_se and the lines that print them.
MetaPool ==
    /\ pc = "filter"
    /\ outcome_df' = ValidRows(outcome_df)
    /\ ~Insufficient(outcome_df')
    /\ pooled' = pooled @@ (common_outcomes[i] :>
                                [pooled_g |-> PooledG(outcome_df'),
                                 pooled_se |-> PooledSe(outcome_df'),
                                 rows |-> outcome_df'])
    /\ Tee(<<Line("effect_sizes", <<>>, Labels(outcome_df')),
             Line("pooled_smd", <<>>, <<>>),
             Line("pooled_se", <<>>, <<>>),
             Line("ci", <<>>, <<>>)>>)
    /\ pc' = "plot"
    /\ UNCHANGED <<result, fileStatus, table, scalars, priorReport, firstRun, call, ret, download_dir, attempts, results, images,
                   df, df_clean, common_outcomes, single_outcomes, i>>

\* Variant of plot_forest that writes the entry without saving the image.
plot_forest_NoImage ==
    /\ pc = "plot"
    /\ buffer' = buffer \o <<Line("chart", <<common_outcomes[i]>>, <<>>),
                             Line("filename", <<common_outcomes[i]>>, <<>>),
                             Line("description", <<common_outcomes[i]>>, <<>>)>>
    /\ console' = console \o <<Line("saved_forest_plot", <<common_outcomes[i]>>, <<>>)>>
    /\ pc' = "plotted"
    /\ UNCHANGED <<result, fileStatus, table, scalars, priorReport, firstRun, call, ret, download_dir, attempts, results, report,
                   images, df, df_clean, common_outcomes, single_outcomes, i, outcome_df, pooled>>

\* Variant of plot_forest that saves the image without writing its entry.
plot_forest_NoEntry ==
    /\ pc = "plot"
    /\ images' = images \cup {ChartFilename(common_outcomes[i])}
    /\ console' = console \o <<Line("saved_forest_plot", <<common_outcomes[i]>>, <<>>)>>
    /\ pc' = "plotted"
    /\ UNCHANGED <<result, fileStatus, table, scalars, priorReport, firstRun, call, ret, download_dir, attempts, results, report, buffer,
                   df, df_clean, common_outcomes, single_outcomes, i, outcome_df, pooled>>

\* plot_forest: the image is saved, the chart entry is written to
\* output_file (not flushed), one line goes to the console only.
plot_forest ==
    /\ pc = "plot"
    /\ LET outcome_name == common_outcomes[i]
       IN  /\ images' = images \cup {ChartFilename(outcome_name)}
           /\ buffer' = buffer \o <<Line("chart", <<outcome_name>>, <<>>),
                                    Line("filename", <<outcome_name>>, <<>>),
                                    Line("description", <<outcome_name>>, <<>>)>>
           /\ console' = console \o <<Line("saved_forest_plot", <<outcome_name>>, <<>>)>>
    /\ pc' = "plotted"
    /\ UNCHANGED <<result, fileStatus, table, scalars, priorReport, firstRun, call, ret, download_dir, attempts, results, report,
                   df, df_clean, common_outcomes, single_outcomes, i, outcome_df, pooled>>

\* plot_forest raises before the image is complete (plt.savefig cannot write
\* the file): nothing catches the exception, it leaves main(), and the with
\* statement closes output_file.
PlotRaise ==
    /\ pc = "plot"
    /\ report' = report \o buffer
    /\ buffer' = <<>>
    /\ pc' = "crashed"
    /\ result' = "plot_exception"
    /\ UNCHANGED <<fileStatus, table, scalars, priorReport, firstRun, call, ret, download_dir, attempts, results, console, images,
                   df, df_clean, common_outcomes, single_outcomes, i, outcome_df, pooled>>

\* The two lines that close an iteration that pooled.
MetaNext ==
    /\ pc = "plotted"
    /\ Tee(<<Line("dashes", <<>>, <<>>), Line("newline", <<>>, <<>>)>>)
    /\ i' = i + 1
    /\ pc' = "meta"
    /\ UNCHANGED <<result, fileStatus, table, scalars, priorReport, firstRun, call, ret, download_dir, attempts, results, images,
                   df, df_clean, common_outcomes, single_outcomes, outcome_df, pooled>>

\* The end of the outcome loop: output_file is closed and the last line
\* goes to the console only.
MetaDone ==
    /\ pc = "meta"
    /\ i > Len(common_outcomes)
    /\ report' = report \o buffer
    /\ buffer' = <<>>
    /\ console' = console \o <<Line("output_written_to", <<>>, <<>>)>>
    /\ pc' = "done"
    /\ result' = "completed"
    /\ UNCHANGED <<fileStatus, table, scalars, priorReport, firstRun, call, ret, download_dir, attempts, results, images,
                   df, df_clean, common_outcomes, single_outcomes, i, outcome_df, pooled>>

\* The steps of one invocation in which every image can be written.
Run ==
    \/ OpenReport
    \/ LoadMissing
    \/ LoadUnparseable
    \/ LoadOk
    \/ Clean
    \/ Group
    \/ SingleStudy
    \/ SingleDone
    \/ MetaRaise
    \/ MetaSmd
    \/ MetaInsufficient
    \/ MetaPool
    \/ plot_forest
    \/ MetaNext
    \/ MetaDone

Next ==
    \/ Run
    \/ PlotRaise

Spec == Init /\ [][Next]_vars

\* -------------------------------------------------- two invocations in a row
\* The script is started again after its first invocation has ended: the
\* files on disk stay (input table, report, images), the process starts
\* afresh.
Rerun ==
    /\ pc \in {"done", "crashed"}
    /\ firstRun = <<>>
    /\ firstRun' = <<[result |-> result, report |-> report, pooled |-> pooled, images |-> images]>>
    /\ priorReport' = report
    /\ pc' = "start"
    /\ result' = ""
    /\ buffer' = <<>>
    /\ console' = <<>>
    /\ df' = <<>>
    /\ df_clean' = <<>>
    /\ common_outcomes' = <<>>
    /\ single_outcomes' = <<>>
    /\ i' = 0
    /\ outcome_df' = <<>>
    /\ pooled' = <<>>
    /\ UNCHANGED <<fileStatus, table, scalars, report, images, call, ret, download_dir, attempts, results>>

InitTwice == Init /\ Len(table) <= MaxRerunRows

NextTwice ==
    \/ Run
    \/ Rerun

SpecTwice == InitTwice /\ [][NextTwice]_vars

\* ------------------------------- two invocations, the input table changed
\* The tables the input is changed to between the invocations: rows are
\* removed from its end.
ShorterTables(t) == { SubSeq(t, 1, n) : n \in 0..(Len(t) - 1) }

\* The script is started again after _extracted_datapoints.csv has lost
\* rows; the report and the images stay on disk.
RerunOnShorterTable ==
    /\ pc \in {"done", "crashed"}
    /\ firstRun = <<>>
    /\ firstRun' = <<[result |-> result, report |-> report, pooled |-> pooled, images |-> images]>>
    /\ table' \in ShorterTables(table)
    /\ priorReport' = report
    /\ pc' = "start"
    /\ result' = ""
    /\ buffer' = <<>>
    /\ console' = <<>>
    /\ df' = <<>>
    /\ df_clean' = <<>>
    /\ common_outcomes' = <<>>
    /\ single_outcomes' = <<>>
    /\ i' = 0
    /\ outcome_df' = <<>>
    /\ pooled' = <<>>
    /\ UNCHANGED <<fileStatus, scalars, report, images, call, ret, download_dir, attempts, results>>

NextChanged ==
    \/ Run
    \/ RerunOnShorterTable

SpecChanged == InitTwice /\ [][NextChanged]_vars

\* The name of the report file, in the three parts of ChartFilename.
output_filename == <<"_meta_analysis_", "output", ".txt">>

\* The files of the working directory that the script writes.
WorkingDirectory == images \cup {output_filename}

\* glob.glob("_meta_analysis_*.png"): the files of the working directory
\* whose name begins with _meta_analysis_ and ends with .png (the order of
\* the sorted list is left out).
get_meta_analysis_images ==
    { f \in WorkingDirectory :
        f[1] \in {"_meta_analysis_", "_meta_analysis_forest_"} /\ f[3] = ".png" }

\* ------------------------------------------- functions called on their own
\* The values of se_g ** 2 of valid studies: the two the rows of the input
\* table give (51/49 and 202/147), and a smaller and a larger one.
ValidSeSquares == {<<1, 4>>, <<51, 49>>, <<202, 147>>, <<3, 1>>}

\* A row of outcome_df, as far as the pooling reads it.
StudyWithSe(v) == [g |-> Zero, se_g |-> NpSqrt(v)]

RECURSIVE GroupsOfSize(_)
GroupsOfSize(n) ==
    IF n = 0 THEN {<<>>}
    ELSE { Append(grp, StudyWithSe(v)) : grp \in GroupsOfSize(n - 1), v \in ValidSeSquares }

\* The calls: HedgesJ on two sample sizes, and the pooled standard error of
\* a group of valid studies before and after one more valid study joins.
\* PubMedArticle, as far as search_merge reads it (pmid) and as far as two
\* records of one PMID can differ (title).
PubMedArticle(pmid, title) == [pmid |-> pmid, title |-> title]

\* Articles of search results: two records of PMID 1 and one of PMID 2.
Articles ==
    {PubMedArticle("1", "Title 1"), PubMedArticle("1", "Title 1 (retrieved again)"),
     PubMedArticle("2", "Title 2")}

\* The arguments of search_merge.
SearchResults == SeqsUpTo(SeqsUpTo(Articles, MaxArticles), MaxLists)

\* Variant of AddArticle that stores the article of a PMID again each time
\* it occurs (the key keeps its place in the dict).
AddArticle_KeepLast(unique_articles, article) ==
    IF \E k \in 1..Len(unique_articles) : unique_articles[k].pmid = article.pmid
    THEN [k \in 1..Len(unique_articles) |->
             IF unique_articles[k].pmid = article.pmid THEN article ELSE unique_articles[k]]
    ELSE Append(unique_articles, article)

\* if article.pmid not in unique_articles: unique_articles[article.pmid] =
\* article. The dict is the sequence of its values in insertion order.
AddArticle(unique_articles, article) ==
    IF \E k \in 1..Len(unique_articles) : unique_articles[k].pmid = article.pmid
    THEN unique_articles
    ELSE Append(unique_articles, article)

\* for article in result_list
RECURSIVE AddResultList(_, _)
AddResultList(unique_articles, result_list) ==
    IF result_list = <<>> THEN unique_articles
    ELSE AddResultList(AddArticle(unique_articles, Head(result_list)), Tail(result_list))

\* for result_list in search_results
RECURSIVE AddSearchResults(_, _)
AddSearchResults(unique_articles, search_results) ==
    IF search_results = <<>> THEN unique_articles
    ELSE AddSearchResults(AddResultList(unique_articles, Head(search_results)),
                          Tail(search_results))

\* PubMedSearcher.search_merge: list(unique_articles.values()).
search_merge(search_results) ==
    IF search_results = <<>> THEN <<>>
    ELSE AddSearchResults(<<>>, search_results)

Calls ==
    { [fn |-> "HedgesJ", n1 |-> a, n2 |-> b] : a \in 0..MaxSampleSize, b \in 0..MaxSampleSize }
        \cup UNION { { [fn |-> "PooledSe", studies |-> grp, added |-> StudyWithSe(v)] :
                          grp \in GroupsOfSize(n), v \in ValidSeSquares } : n \in 2..MaxStudies }
        \cup { [fn |-> "search_merge", search_results |-> lists] : lists \in SearchResults }

InitCalc ==
    /\ call \in { <<c>> : c \in Calls }
    /\ ret = <<>>
    /\ pc = "start"
    /\ result = ""
    /\ fileStatus = "missing"
    /\ table = <<>>
    /\ scalars = "python"
    /\ priorReport = <<>>
    /\ report = <<>>
    /\ buffer = <<>>
    /\ console = <<>>
    /\ images = {}
    /\ df = <<>>
    /\ df_clean = <<>>
    /\ common_outcomes = <<>>
    /\ single_outcomes = <<>>
    /\ i = 0
    /\ outcome_df = <<>>
    /\ pooled = <<>>
    /\ firstRun = <<>>
    /\ download_dir = {}
    /\ attempts = <<>>
    /\ results = <<>>

CallHedgesJ ==
    /\ ret = <<>>
    /\ call[1].fn = "HedgesJ"
    /\ ret' = <<HedgesJ(Num(call[1].n1), Num(call[1].n2))>>
    /\ UNCHANGED <<pc, result, fileStatus, table, scalars, priorReport, report, buffer, console,
                   images, df, df_clean, common_outcomes, single_outcomes, i, outcome_df,
                   pooled, firstRun, call,
                   download_dir, attempts, results>>

\* pooled_se of the group, and of the group with the added study.
CallPooledSe ==
    /\ ret = <<>>
    /\ call[1].fn = "PooledSe"
    /\ ret' = <<PooledSe(call[1].studies), PooledSe(Append(call[1].studies, call[1].added))>>
    /\ UNCHANGED <<pc, result, fileStatus, table, scalars, priorReport, report, buffer, console,
                   images, df, df_clean, common_outcomes, single_outcomes, i, outcome_df,
                   pooled, firstRun, call,
                   download_dir, attempts, results>>

CallSearchMerge ==
    /\ ret = <<>>
    /\ call[1].fn = "search_merge"
    /\ ret' = <<search_merge(call[1].search_results)>>
    /\ UNCHANGED <<pc, result, fileStatus, table, scalars, priorReport, report, buffer, console,
                   images, df, df_clean, common_outcomes, single_outcomes, i, outcome_df,
                   pooled, firstRun, call,
                   download_dir, attempts, results>>

NextCalc ==
    \/ CallHedgesJ
    \/ CallPooledSe
    \/ CallSearchMerge

SpecCalc == InitCalc /\ [][NextCalc]_vars

\* ------------------------------------------------------------ DOIDownloader
\* Optional values: None, or the value in a sequence of length one.
None == <<>>
Some(x) == <<x>>

\* Strings are sequences of characters.  NotAString stands for an argument
\* that is not a str (None, a number): doi.replace raises on it.
NotAString == <<"not a str">>
Dois == {<<"a", "/", "b">>, <<"a", "_", "b">>, NotAString}
PaperTitle == <<"t">>
CustomFilename == <<"c">>

\* The main script's variables, which a DOIDownloader does not touch.
mainVars ==
    <<result, fileStatus, table, scalars, priorReport, report, buffer, console, images,
      df, df_clean, common_outcomes, single_outcomes, outcome_df, pooled, firstRun>>

DownloadResult(doi, success, file_path, error_message, source) ==
    [doi |-> doi, success |-> success, file_path |-> file_path,
     error_message |-> error_message, source |-> source]

\* re.sub(r'[<>:"/\\|?*]', '_', text).  The texts of the model have no
\* white space and are shorter than max_length.
_sanitize_filename(text) ==
    [k \in 1..Len(text) |->
        IF text[k] \in {"<", ">", ":", "\"", "/", "\\", "|", "?", "*"} THEN "_" ELSE text[k]]

\* title is a non-empty string
Truthy(optional) == optional # None /\ optional[1] # <<>>

_generate_filename(doi, title) ==
    LET doi_clean == _sanitize_filename([k \in 1..Len(doi) |->
                                            IF doi[k] = "/" THEN "_" ELSE doi[k]])
    IN  IF Truthy(title)
        THEN _sanitize_filename(title[1]) \o <<"_">> \o doi_clean \o <<".pdf">>
        ELSE doi_clean \o <<".pdf">>

\* The files the calls of the model can target.
TargetFiles ==
    { _generate_filename(d, t) : d \in Dois \ {NotAString}, t \in {None, Some(PaperTitle)} }
        \cup {_sanitize_filename(CustomFilename) \o <<".pdf">>}

\* The lists of titles of a length.
TitleLists(n) == [1..n -> {PaperTitle}]

DownloaderCalls ==
    { [fn |-> "download_doi", doi |-> d, title |-> t, custom_filename |-> c, overwrite |-> o] :
          d \in Dois, t \in {None, Some(PaperTitle)}, c \in {None, Some(CustomFilename)},
          o \in BOOLEAN }
        \cup { [fn |-> "download_dois_batch", dois |-> ds, titles |-> ts, overwrite |-> o] :
                  ds \in SeqsUpTo(Dois, MaxDois),
                  ts \in {None} \cup { Some(l) : l \in UNION { TitleLists(n) : n \in 0..MaxDois } },
                  o \in BOOLEAN }

InitDownload ==
    /\ call \in { <<c>> : c \in DownloaderCalls }
    /\ ret = <<>>
    /\ pc = call[1].fn
    /\ i = 0
    /\ download_dir \in { { [name |-> f, content |-> "earlier"] : f \in S } : S \in SUBSET TargetFiles }
    /\ attempts = <<>>
    /\ results = <<>>
    /\ result = ""
    /\ fileStatus = "missing"
    /\ table = <<>>
    /\ scalars = "python"
    /\ priorReport = <<>>
    /\ report = <<>>
    /\ buffer = <<>>
    /\ console = <<>>
    /\ images = {}
    /\ df = <<>>
    /\ df_clean = <<>>
    /\ common_outcomes = <<>>
    /\ single_outcomes = <<>>
    /\ outcome_df = <<>>
    /\ pooled = <<>>
    /\ firstRun = <<>>

\* The running download_doi: called on its own, or for dois[i] by
\* download_dois_batch (title = titles[i] if titles else None).
InBatch == call[1].fn = "download_dois_batch"
Invocation == IF InBatch THEN i ELSE 1
ActiveDoi == IF InBatch THEN call[1].dois[i] ELSE call[1].doi
ActiveTitle ==
    IF InBatch
    THEN IF Truthy(call[1].titles) THEN Some(call[1].titles[1][i]) ELSE None
    ELSE call[1].title
ActiveCustomFilename == IF InBatch THEN None ELSE call[1].custom_filename

\* The filename of lines 367-370 raises.
FilenameRaises == ~Truthy(ActiveCustomFilename) /\ ActiveDoi = NotAString

\* file_path = self.download_dir / filename
ActiveFilePath ==
    IF Truthy(ActiveCustomFilename)
    THEN _sanitize_filename(ActiveCustomFilename[1]) \o <<".pdf">>
    ELSE _generate_filename(ActiveDoi, ActiveTitle)

\* file_path.exists()
Exists(files, file_path) == \E f \in files : f.name = file_path

\* The file is written (opened with 'wb').
Written(files, file_path, content) ==
    { f \in files : f.name # file_path } \cup {[name |-> file_path, content |-> content]}

\* download_doi returns: to its caller, or into results of the batch loop.
ReturnResult(r) ==
    IF InBatch
    THEN /\ results' = Append(results, r)
         /\ i' = i + 1
         /\ pc' = "batch_loop"
         /\ UNCHANGED ret
    ELSE /\ ret' = <<r>>
         /\ pc' = "returned"
         /\ UNCHANGED <<results, i>>

\* if titles and len(titles) != len(dois): raise ValueError
download_dois_batch_Raise ==
    /\ pc = "download_dois_batch"
    /\ Truthy(call[1].titles) /\ Len(call[1].titles[1]) # Len(call[1].dois)
    /\ pc' = "raised"
    /\ ret' = <<"ValueError">>
    /\ UNCHANGED <<mainVars, call, i, download_dir, attempts, results>>

\* results = []; the loop starts.
download_dois_batch_Start ==
    /\ pc = "download_dois_batch"
    /\ ~(Truthy(call[1].titles) /\ Len(call[1].titles[1]) # Len(call[1].dois))
    /\ results' = <<>>
    /\ i' = 1
    /\ pc' = "batch_loop"
    /\ UNCHANGED <<mainVars, call, ret, download_dir, attempts>>

\* result = self.download_doi(doi, title=title, overwrite=overwrite)
download_dois_batch_Call ==
    /\ pc = "batch_loop"
    /\ i <= Len(call[1].dois)
    /\ pc' = "download_doi"
    /\ UNCHANGED <<mainVars, call, ret, i, download_dir, attempts, results>>

\* return results
download_dois_batch_Return ==
    /\ pc = "batch_loop"
    /\ i > Len(call[1].dois)
    /\ ret' = <<results>>
    /\ pc' = "returned"
    /\ UNCHANGED <<mainVars, call, i, download_dir, attempts, results>>

\* Variant of IsCached that does not look at overwrite.
IsCached_WhateverOverwrite(files, file_path, overwrite) == Exists(files, file_path)

\* if file_path.exists() and not overwrite
IsCached(files, file_path, overwrite) == Exists(files, file_path) /\ ~overwrite

\* The filename cannot be generated: the outer except returns a failure.
download_doi_Error ==
    /\ pc = "download_doi"
    /\ FilenameRaises
    /\ ReturnResult(DownloadResult(ActiveDoi, FALSE, None, Some("Error downloading DOI"), None))
    /\ UNCHANGED <<mainVars, call, download_dir, attempts>>

\* The file is there already and is not to be overwritten.
download_doi_Cached ==
    /\ pc = "download_doi"
    /\ ~FilenameRaises
    /\ IsCached(download_dir, ActiveFilePath, call[1].overwrite)
    /\ ReturnResult(DownloadResult(ActiveDoi, TRUE, Some(ActiveFilePath), None, Some("cached")))
    /\ UNCHANGED <<mainVars, call, download_dir, attempts>>

\* Otherwise the download methods are tried.
download_doi_Start ==
    /\ pc = "download_doi"
    /\ ~FilenameRaises
    /\ ~IsCached(download_dir, ActiveFilePath, call[1].overwrite)
    /\ pc' = "direct"
    /\ UNCHANGED <<mainVars, call, ret, i, download_dir, attempts, results>>

\* What the publisher's site answers to _download_from_doi_url: the status
\* and content type of the page of the DOI and, for an HTML page with a PDF
\* link, the answer to _download_pdf_from_url.
DirectResponses ==
    {"http_error", "request_exception", "pdf", "pdf_not_writable", "html_without_link",
     "other_content_type", "link_pdf", "link_not_a_pdf", "link_http_error", "link_exception"}

\* _download_from_doi_url: the DownloadResult, and whether file_path was
\* written.
_download_from_doi_url(doi, file_path, response) ==
    CASE response = "http_error" ->
             [returned |-> DownloadResult(doi, FALSE, None, Some("Failed to access DOI URL"), None),
              written |-> FALSE]
      [] response = "request_exception" ->
             [returned |-> DownloadResult(doi, FALSE, None, Some("Network error accessing DOI"), None),
              written |-> FALSE]
      [] response = "pdf" ->
             [returned |-> DownloadResult(doi, TRUE, Some(file_path), None, Some("direct_doi")),
              written |-> TRUE]
      [] response = "pdf_not_writable" ->
             [returned |-> DownloadResult(doi, FALSE, None, Some("Error in direct DOI download"), None),
              written |-> FALSE]
      [] response \in {"html_without_link", "other_content_type"} ->
             [returned |-> DownloadResult(doi, FALSE, None, Some("No PDF link found on publisher page"), None),
              written |-> FALSE]
      [] response = "link_pdf" ->
             [returned |-> DownloadResult(doi, TRUE, Some(file_path), None, Some("doi_redirect")),
              written |-> TRUE]
      [] response = "link_not_a_pdf" ->
             [returned |-> DownloadResult(doi, FALSE, None, Some("URL did not return a valid PDF"), None),
              written |-> FALSE]
      [] response = "link_http_error" ->
             [returned |-> DownloadResult(doi, FALSE, None, Some("Failed to download from URL"), None),
              written |-> FALSE]
      [] response = "link_exception" ->
             [returned |-> DownloadResult(doi, FALSE, None, Some("Error downloading from URL"), None),
              written |-> FALSE]

\* Variant of DirectSucceeded with which the direct result is never returned.
DirectSucceeded_Never(direct) == FALSE

\* if result.success: return result
DirectSucceeded(direct) == direct.success

\* Method 1: result = self._download_from_doi_url(doi, file_path)
download_doi_Direct ==
    /\ pc = "direct"
    /\ \E response \in DirectResponses :
           LET d == _download_from_doi_url(ActiveDoi, ActiveFilePath, response)
           IN  /\ attempts' = Append(attempts,
                                     [method |-> "direct", n |-> Invocation,
                                      outcome |-> IF d.returned.success THEN "success" ELSE "failure"])
               /\ download_dir' = IF d.written
                                  THEN Written(download_dir, ActiveFilePath, d.returned.source[1])
                                  ELSE download_dir
               /\ IF DirectSucceeded(d.returned)
                  THEN ReturnResult(d.returned)
                  ELSE /\ pc' = "scihub"
                       /\ UNCHANGED <<ret, i, results>>
    /\ UNCHANGED <<mainVars, call>>

\* What scihub_download does: it saves the file, returns without a file, or
\* raises.
SciHubOutcomes == {"saved", "nothing", "raised"}

\* Method 2: scihub_download(keyword=doi, paper_type="doi", out=...), then
\* file_path.exists().
download_doi_SciHub ==
    /\ pc = "scihub"
    /\ \E outcome \in SciHubOutcomes :
           /\ attempts' = Append(attempts,
                                 [method |-> "sci-hub", n |-> Invocation, outcome |-> outcome])
           /\ download_dir' = IF outcome = "saved"
                              THEN Written(download_dir, ActiveFilePath, "sci-hub")
                              ELSE download_dir
           /\ ReturnResult(
                  IF outcome = "raised"
                  THEN DownloadResult(ActiveDoi, FALSE, None, Some("Sci-hub download failed"), None)
                  ELSE IF Exists(download_dir', ActiveFilePath)
                       THEN DownloadResult(ActiveDoi, TRUE, Some(ActiveFilePath), None, Some("sci-hub"))
                       ELSE DownloadResult(ActiveDoi, FALSE, None,
                                           Some("Sci-hub download completed but file not found"), None))
    /\ UNCHANGED <<mainVars, call>>

NextDownload ==
    \/ download_dois_batch_Raise
    \/ download_dois_batch_Start
    \/ download_dois_batch_Call
    \/ download_dois_batch_Return
    \/ download_doi_Error
    \/ download_doi_Cached
    \/ download_doi_Start
    \/ download_doi_Direct
    \/ download_doi_SciHub

SpecDownload == InitDownload /\ [][NextDownload]_vars

\* ------------------------------------------------- the input, row by row
\* The definitions below describe the input table directly, without the
\* operators of the run.

TableOutcomes == { table[k].outcome_name : k \in 1..Len(table) }

\* The measurements with a number in each of the six essential cells.
ParsedMeasurements ==
    { m \in Measurements : \A c \in 1..Len(essential_cols) : m[c][1] = "num" }

\* Row k has a number in each of the six essential cells.
Parses(k) == table[k].cells \in ParsedMeasurements

\* The labels of the rows of outcome o that cleaning keeps.
CleanLabels(o) == { k \in 1..Len(table) : table[k].outcome_name = o /\ Parses(k) }

ValsOf(k) == [c \in 1..Len(essential_cols) |-> Num(table[k].cells[c][2])]

\* The measurements, with the scalar kind, whose effect size has se_g not
\* null, finite and > 0.
ValidMeasurements ==
    { e \in ParsedMeasurements \X ScalarKinds :
        LET r == SmdOf([c \in 1..Len(essential_cols) |-> Num(e[1][c][2])], e[2])
        IN  ~r.raised /\ ~IsNaN(r.se_g.sq) /\ IsFinite(r.se_g.sq) /\ Lt(Zero, r.se_g.sq) }

\* Row k has an effect size with se_g not null, finite and > 0.
IsValidRecord(k) == <<table[k].cells, scalars>> \in ValidMeasurements

ValidLabels(o) == { k \in CleanLabels(o) : IsValidRecord(k) }

\* No outcome has more than one cleaned row.
NoCommon == \A o \in TableOutcomes : Cardinality(CleanLabels(o)) <= 1

Ended == pc \in {"done", "crashed"}

\* The report has a line of this kind about outcome o.
HasEntry(kind, o) ==
    \E n \in 1..Len(report) : report[n].kind = kind /\ report[n].outcomes = <<o>>

\* The kinds of the lines that are about one outcome.
PerOutcomeKinds ==
    {"single_study_analysis", "meta_analysis", "insufficient_valid_data",
     "chart", "filename", "description"}

\* A line about outcome o alone is in the report.
NamedInReport(o) == \E kind \in PerOutcomeKinds : HasEntry(kind, o)

\* The report has the single-study header of o followed by raw values
\* that include record k.
SingleStudyEntry(o, k) ==
    \E n \in 1..(Len(report) - 1) :
        /\ report[n].kind = "single_study_analysis"
        /\ report[n].outcomes = <<o>>
        /\ report[n + 1].kind = "raw_values"
        /\ \E m \in 1..Len(report[n + 1].rows) : report[n + 1].rows[m] = k

\* The report has raw values that include record k.
RawValuesOf(k) ==
    \E n \in 1..Len(report) :
        /\ report[n].kind = "raw_values"
        /\ \E m \in 1..Len(report[n].rows) : report[n].rows[m] = k

\* ------------------------------------------------------------------ C1
\* C1: the pooled effect of every pooled outcome lies between the smallest
\* and the largest g of the records it was computed from.
C1_PooledWithinRange ==
    \A o \in DOMAIN pooled :
        LET rows == pooled[o].rows
        IN  /\ \E k \in 1..Len(rows) : Le(rows[k].g, pooled[o].pooled_g)
            /\ \E k \in 1..Len(rows) : Le(pooled[o].pooled_g, rows[k].g)

\* An outcome is pooled from records with different g, and its pooled
\* effect lies strictly between two of them.
C1_Witness ==
    \E o \in DOMAIN pooled :
        LET rows == pooled[o].rows
        IN  \E j, k \in 1..Len(rows) :
                Lt(rows[j].g, pooled[o].pooled_g) /\ Lt(pooled[o].pooled_g, rows[k].g)

\* ------------------------------------------------------------------ C2
\* C2: when the run has ended, every outcome with at least two valid
\* records among the cleaned rows is pooled and has its forest-plot image.
C2_EveryPoolableOutcomePooled ==
    Ended =>
        \A o \in TableOutcomes :
            Cardinality(ValidLabels(o)) >= 2 =>
                o \in DOMAIN pooled /\ ChartFilename(o) \in images

\* ------------------------------------------------------------------ C3
\* C3: an outcome with fewer than two valid records has no pooled estimate
\* and no forest-plot image, at any point of the run; that is, an outcome
\* that has either of them has at least two valid records.
C3_NoPoolBelowTwoValid ==
    \A o \in Outcomes :
        (o \in DOMAIN pooled \/ ChartFilename(o) \in images) =>
            Cardinality(ValidLabels(o)) >= 2

\* A run has completed its outcome loop over an outcome with exactly one
\* valid record.
C3_Witness ==
    /\ pc = "done"
    /\ result = "completed"
    /\ \E n \in 1..Len(common_outcomes) : Cardinality(ValidLabels(common_outcomes[n])) = 1

ZeroPooledSd(vals) ==
    IsZero(vals[3]) /\ IsZero(vals[6]) /\ ~IsZero(Sub(Add(vals[1], vals[4]), Num(2)))

\* C6: a record whose pooled standard deviation is exactly 0 gets g = 0
\* and se_g = 0 from calculate_smd, and no pooled estimate is computed
\* from such a record.
C6_ZeroSdIsZeroZeroAndNotPooled ==
    /\ \A k \in 1..Len(outcome_df) :
           ZeroPooledSd(outcome_df[k].vals) =>
               outcome_df[k].g = Zero /\ outcome_df[k].se_g = NpSqrt(Zero)
    /\ \A o \in DOMAIN pooled :
           \A k \in 1..Len(pooled[o].rows) : ~ZeroPooledSd(pooled[o].rows[k].vals)

\* An outcome has been pooled although one of its cleaned rows has a pooled
\* standard deviation of 0.
C6_Witness ==
    \E o \in DOMAIN pooled :
        \E k \in CleanLabels(o) : ZeroPooledSd(ValsOf(k))

\* ------------------------------------------------------------------ C7
\* C7: every record a pooled estimate was computed from has both sample
\* sizes >= 2.
C7_PooledRecordsHaveTwoPerArm ==
    \A o \in DOMAIN pooled :
        \A k \in 1..Len(pooled[o].rows) :
            /\ Le(Num(2), pooled[o].rows[k].vals[1])
            /\ Le(Num(2), pooled[o].rows[k].vals[4])

\* ------------------------------------------------------------------ C8
\* C8: when the run has ended, every outcome with more than one cleaned row
\* has been handled: it has its meta-analysis header, and it was either
\* pooled or reported as having insufficient valid data.
C8_EveryCommonOutcomeHandled ==
    Ended =>
        \A o \in TableOutcomes :
            Cardinality(CleanLabels(o)) > 1 =>
                /\ HasEntry("meta_analysis", o)
                /\ o \in DOMAIN pooled \/ HasEntry("insufficient_valid_data", o)

\* ------------------------------------------------------------------ C9
\* The input is unavailable: the file is missing or unparseable, or no row
\* has a number in each essential cell.
InputUnavailable ==
    fileStatus # "ok" \/ \A k \in 1..Len(table) : ~Parses(k)

\* C9: with an unavailable input the run never gets past cleaning, computes
\* no effect size, produces no pooled estimate and writes no image; when it
\* has ended, it has ended in the data-unavailable outcome.
C9_UnavailableInputStopsRun ==
    InputUnavailable =>
        /\ pc \in {"start", "load", "clean", "done"}
        /\ outcome_df = <<>>
        /\ pooled = <<>>
        /\ images = {}
        /\ Ended => (pc = "done" /\ result = "data_unavailable")

\* A run over a file whose rows were all dropped by cleaning has ended.
C9_Witness ==
    /\ pc = "done"
    /\ result = "data_unavailable"
    /\ fileStatus = "ok"
    /\ Len(table) > 1

\* ----------------------------------------------------------------- C10
\* C10 as stated: after a run that aborted on an input error the report
\* file is as the earlier invocation left it.
C10_AbortLeavesReportUntouched ==
    result = "data_unavailable" => report = priorReport

\* C10 as amended: a run that aborts on an input error has truncated the
\* report file: afterwards the file holds none of the earlier invocation's
\* lines, only the lines this run wrote up to the abort, the last of which
\* is the error message; no image file is written.
C10_AbortRewritesReport ==
    result = "data_unavailable" =>
        /\ report # priorReport
        /\ \A n \in 1..Len(report) : report[n].kind # "earlier_report"
        /\ report = console
        /\ buffer = <<>>
        /\ Len(report) > 0
        /\ report[Len(report)].kind \in
               {"error_file_not_found", "error_reading_csv", "no_complete_data"}
        /\ images = {}

\* A run that found an earlier report has aborted on an input error.
C10_Witness ==
    /\ result = "data_unavailable"
    /\ priorReport # <<>>
    /\ pc = "done"

\* ----------------------------------------------------------------- C11
\* C11: when a run has ended on a failure of plot_forest for one outcome,
\* every outcome that follows it in the processing order has been
\* processed: it has its meta-analysis header in the report.
C11_PlotFailureSkipsOnlyThatOutcome ==
    (pc = "crashed" /\ result = "plot_exception") =>
        \A n \in (i + 1)..Len(common_outcomes) :
            HasEntry("meta_analysis", common_outcomes[n])

\* ----------------------------------------------------------------- C12
\* The kinds of the lines written with output_file.write (the header of the
\* charts section and the chart entries), and of the lines printed with
\* print to the console alone.
ChartSectionKinds == {"rule", "generated_charts", "chart", "filename", "description"}

ConsoleOnlyKinds == {"saved_forest_plot", "output_written_to"}

IsChartSectionLine(ln) == ln.kind \in ChartSectionKinds

IsTeeLineOfReport(ln) == ln.kind \notin ChartSectionKinds

IsTeeLineOfConsole(ln) == ln.kind \notin ConsoleOnlyKinds

\* a is b with some elements left out.
RECURSIVE IsSubsequence(_, _)
IsSubsequence(a, b) ==
    IF a = <<>> THEN TRUE
    ELSE IF b = <<>> THEN FALSE
    ELSE IF a[1] = b[1] THEN IsSubsequence(Tail(a), Tail(b))
    ELSE IsSubsequence(a, Tail(b))

\* C12 as stated: once the run has opened the report, the lines of the
\* report are lines the console received, in the same order.
C12_ReportMirroredOnConsole ==
    pc # "start" => IsSubsequence(report, console)

\* C12 as amended: the lines printed with tee_print are in the report and on
\* the console, in the same order; the lines of the charts section (its
\* header and the chart entries) are in the report only, and the console
\* never receives one.
C12_TeeLinesMirrored ==
    pc # "start" =>
        /\ SelectSeq(report, IsTeeLineOfReport) = SelectSeq(console, IsTeeLineOfConsole)
        /\ \A n \in 1..Len(console) : ~IsChartSectionLine(console[n])

\* A run has completed with a chart entry in its report.
C12_Witness ==
    /\ pc = "done"
    /\ result = "completed"
    /\ \E n \in 1..Len(report) : report[n].kind = "filename"

\* ----------------------------------------------------------------- C13
\* C13 as stated: no written line is left in the buffer between two steps
\* of the run.
C13_NothingLeftInBuffer == buffer = <<>>

\* C13 as amended: only lines of the charts section wait in the buffer (the
\* header until the first line of the outcome loop is printed, a chart
\* entry until the line that closes its iteration is printed); every line
\* printed with tee_print is on disk at once, and when the run has ended,
\* normally or on an exception, nothing is left in the buffer.
C13_OnlyChartLinesWait ==
    /\ \A n \in 1..Len(buffer) : IsChartSectionLine(buffer[n])
    /\ buffer # <<>> => (pc = "meta" /\ i = 1) \/ pc = "plotted"
    /\ pc \in {"done", "crashed"} => buffer = <<>>

\* A chart entry is waiting in the buffer after plot_forest.
C13_Witness ==
    /\ pc = "plotted"
    /\ \E n \in 1..Len(buffer) : buffer[n].kind = "filename"

\* ----------------------------------------------------------------- C14
\* The positions in the report of the lines of a kind.
Positions(kinds) == { n \in 1..Len(report) : report[n].kind \in kinds }

AnalysisKinds == {"meta_analysis", "effect_sizes", "pooled_smd", "pooled_se", "ci"}

\* The chart entry of outcome o starts at position n of the report.
ChartEntryAt(o, n) ==
    /\ n + 2 <= Len(report)
    /\ report[n] = Line("chart", <<o>>, <<>>)
    /\ report[n + 1] = Line("filename", <<o>>, <<>>)
    /\ report[n + 2] = Line("description", <<o>>, <<>>)

\* C14 as stated: in the report of a completed run the header of the charts
\* section comes after the analysis blocks of all outcomes.
C14_ChartsSectionTrailing ==
    (pc = "done" /\ result = "completed") =>
        \A h \in Positions({"generated_charts"}) :
            \A n \in Positions(AnalysisKinds) : n < h

\* C14 as amended: the report of a completed run has the header of the
\* charts section once, before the first per-outcome analysis block; the
\* entry of each chart (name, filename, one-line description) follows the
\* analysis block of its outcome and precedes the block of the next
\* outcome; every image has its entry.
C14_ChartsSectionInterleaved ==
    (pc = "done" /\ result = "completed") =>
        /\ Cardinality(Positions({"generated_charts"})) = 1
        /\ \A h \in Positions({"generated_charts"}) :
               \A n \in Positions(AnalysisKinds) : h < n
        /\ \A o \in DOMAIN pooled :
               \E n \in Positions({"chart"}) :
                   /\ ChartEntryAt(o, n)
                   /\ \E c \in Positions({"ci"}) : c = n - 1
                   /\ \A m \in Positions({"meta_analysis"}) :
                          IF report[m].outcomes = <<o>> THEN m < n ELSE m < n - 5 \/ m > n + 2

\* A run has completed in which two outcomes were pooled.
C14_Witness ==
    /\ pc = "done"
    /\ result = "completed"
    /\ Cardinality(DOMAIN pooled) = 2

\* ----------------------------------------------------------------- C15
\* C15: when the second of two invocations on the same input table has
\* ended, it has ended the way the first did, with the same pooled_g and
\* pooled_se for every outcome, the same report content and the same set of
\* image files.
C15_SecondRunRepeatsFirst ==
    (Len(firstRun) = 1 /\ pc \in {"done", "crashed"}) =>
        /\ result = firstRun[1].result
        /\ pooled = firstRun[1].pooled
        /\ report = firstRun[1].report
        /\ images = firstRun[1].images

\* The second invocation has completed with a pooled outcome and its image.
C15_Witness ==
    /\ Len(firstRun) = 1
    /\ pc = "done"
    /\ result = "completed"
    /\ pooled # <<>>
    /\ images # {}

\* ----------------------------------------------------------------- C18
\* HedgesJ has returned for sample sizes with n1 + n2 > 2.
ReturnedJ ==
    /\ ret # <<>>
    /\ call[1].fn = "HedgesJ"
    /\ call[1].n1 + call[1].n2 > 2

\* C18 as stated: for integer sample sizes with n1 + n2 > 2 the factor J is
\* strictly greater than 0 and strictly less than 1.
C18_JStrictlyBetweenZeroAndOne ==
    ReturnedJ => Lt(Zero, ret[1]) /\ Lt(ret[1], One)

\* C18 as amended: for integer sample sizes with n1 + n2 > 2 the factor J is
\* at least 0 and strictly less than 1; it is 0 exactly when n1 + n2 = 3
\* and strictly greater than 0 when n1 + n2 > 3.
C18_JBetweenZeroAndOne ==
    ReturnedJ =>
        /\ Le(Zero, ret[1])
        /\ Lt(ret[1], One)
        /\ IsZero(ret[1]) <=> call[1].n1 + call[1].n2 = 3

\* HedgesJ has returned 0, for n1 + n2 = 3.
C18_Witness ==
    /\ ReturnedJ
    /\ IsZero(ret[1])
    /\ call[1].n1 + call[1].n2 = 3

\* ----------------------------------------------------------------- C19
ReturnedPooledSe == ret # <<>> /\ call[1].fn = "PooledSe"

\* C19: the pooled standard error of a group of valid studies with one more
\* valid study is at most that of the group (the square roots compare as
\* their radicands do).
C19_PooledSeNeverIncreases ==
    ReturnedPooledSe =>
        /\ RootIsFinite(ret[1]) /\ RootIsPos(ret[1])
        /\ RootIsFinite(ret[2]) /\ RootIsPos(ret[2])
        /\ Le(ret[2].sq, ret[1].sq)

\* The pooled standard error of a group of the largest size has decreased
\* with the added study.
C19_Witness ==
    /\ ReturnedPooledSe
    /\ Len(call[1].studies) = MaxStudies
    /\ Lt(ret[2].sq, ret[1].sq)

\* ----------------------------------------------------------------- C16
\* The number of times plot_forest has saved the image of outcome o: each
\* save is followed by its "Saved forest plot to ..." line on the console.
TimesSaved(o) ==
    Cardinality({ n \in 1..Len(console) :
                    console[n] = Line("saved_forest_plot", <<o>>, <<>>) })

\* C16: within one run no outcome is in the processing order twice, the
\* image of an outcome is saved once if it is on disk and never otherwise,
\* and two different outcome names have different image paths.
C16_EachImageWrittenOnce ==
    /\ \A a, b \in 1..Len(common_outcomes) :
           common_outcomes[a] = common_outcomes[b] => a = b
    /\ \A o \in Outcomes :
           TimesSaved(o) = (IF ChartFilename(o) \in images THEN 1 ELSE 0)
    /\ \A o, q \in Outcomes : ChartFilename(o) = ChartFilename(q) => o = q

\* A run has completed with the images of two outcomes.
C16_Witness ==
    /\ pc = "done"
    /\ result = "completed"
    /\ Cardinality(images) = 2

\* ----------------------------------------------------------------- C17
\* The labels of the rows of the input table with a number in each of the
\* six essential cells, in table order.
ParsedLabels == SelectSeq([k \in 1..Len(table) |-> k], Parses)

\* C17: once the table is cleaned, df_clean holds exactly the loaded rows
\* whose six essential cells parse as numbers, in their order, with their
\* outcome and their values; no other row is in it.
C17_CleaningKeepsParsedRows ==
    pc \notin {"start", "load", "clean"} /\ fileStatus = "ok" =>
        /\ Labels(df_clean) = ParsedLabels
        /\ Len(df_clean) <= Len(df)
        /\ Len(df) = Len(table)
        /\ \A n \in 1..Len(df_clean) :
               /\ df_clean[n].outcome_name = table[df_clean[n].index].outcome_name
               /\ df_clean[n].vals = ValsOf(df_clean[n].index)

\* Cleaning has dropped a row and kept another.
C17_Witness ==
    /\ pc = "group"
    /\ 0 < Len(df_clean)
    /\ Len(df_clean) < Len(df)

\* ----------------------------------------------------------------- C20
\* C20: every record a pooled estimate was computed from has se_g not null,
\* finite and > 0, and a weight that is finite and > 0; the sum of the
\* weights of a pooled outcome is not 0.
C20_PooledRecordsHaveValidWeights ==
    \A o \in DOMAIN pooled :
        LET rows == pooled[o].rows
        IN  /\ \A k \in 1..Len(rows) :
                   /\ ~RootIsNaN(rows[k].se_g)
                   /\ RootIsFinite(rows[k].se_g)
                   /\ RootIsPos(rows[k].se_g)
                   /\ IsFinite(Weight(rows[k]))
                   /\ Lt(Zero, Weight(rows[k]))
            /\ ~IsZero(SumSeq([k \in 1..Len(rows) |-> Weight(rows[k])]))
            /\ IsFinite(SumSeq([k \in 1..Len(rows) |-> Weight(rows[k])]))

\* An outcome has been pooled although one of its cleaned rows has an
\* infinite se_g (an empty arm, with numpy scalars).
C20_Witness ==
    /\ scalars = "numpy"
    /\ \E o \in DOMAIN pooled :
           \E k \in CleanLabels(o) : table[k].cells = EmptyArm

\* ----------------------------------------------------------------- C21
\* C21: once the table is cleaned no step of the run changes df_clean, and
\* the step that pools an outcome gives it the pooled_g and pooled_se of
\* the valid rows of that outcome in df_clean, whatever was processed
\* before.
C21_CleanedTableNeverChanges ==
    [][/\ pc \notin {"start", "load", "clean"} => df_clean' = df_clean
       /\ (pc = "filter" /\ pc' = "plot") =>
              LET o == common_outcomes[i]
                  rows == ValidRows(WithSmd(RowsOf(df_clean, o), scalars))
              IN  /\ pooled'[o].rows = rows
                  /\ pooled'[o].pooled_g = PooledG(rows)
                  /\ pooled'[o].pooled_se = PooledSe(rows)
                  /\ \A q \in DOMAIN pooled : pooled'[q] = pooled[q]]_vars

\* A run has completed in which the second outcome of the processing order
\* was pooled after the first was processed.
C21_Witness ==
    /\ pc = "done"
    /\ result = "completed"
    /\ Len(common_outcomes) = 2
    /\ common_outcomes[2] \in DOMAIN pooled
    /\ HasEntry("meta_analysis", common_outcomes[1])

\* ----------------------------------------------------------------- C27
\* The outcomes with a chart entry among the lines written so far, flushed
\* or not.
OutcomesWithEntry(kind) ==
    { (report \o buffer)[n].outcomes[1] :
        n \in { m \in 1..Len(report \o buffer) : (report \o buffer)[m].kind = kind } }

\* The number of lines of a kind written so far.
NumberOfLines(kind) ==
    Cardinality({ n \in 1..Len(report \o buffer) : (report \o buffer)[n].kind = kind })

\* C27: every chart entry written so far names an image that is saved; when
\* a run has completed, the number of chart entries, the number of images
\* and the number of pooled outcomes are equal.
C27_ChartEntriesNameSavedImages ==
    /\ pc # "start" =>
           \A kind \in {"chart", "filename", "description"} :
               \A o \in OutcomesWithEntry(kind) : ChartFilename(o) \in images
    /\ (pc = "done" /\ result = "completed") =>
           /\ NumberOfLines("filename") = Cardinality(images)
           /\ NumberOfLines("chart") = Cardinality(images)
           /\ NumberOfLines("description") = Cardinality(images)
           /\ Cardinality(images) = Cardinality(DOMAIN pooled)

\* The entry of a saved image is written and not flushed yet.
C27_Witness ==
    /\ pc = "plotted"
    /\ \E n \in 1..Len(buffer) :
           buffer[n].kind = "filename" /\ ChartFilename(buffer[n].outcomes[1]) \in images

\* ----------------------------------------------------------------- C28
\* C28: when no outcome has more than one cleaned row, the run computes no
\* effect size and no pooled estimate, saves no image and writes no header
\* of the charts section; it ends without an exception, and if a row is
\* left after cleaning it ends after the single-study branch, with every
\* outcome of the cleaned table listed once with its raw values.
C28_SingleStudyBranchOnly ==
    (fileStatus = "ok" /\ NoCommon) =>
        /\ outcome_df = <<>>
        /\ pooled = <<>>
        /\ images = {}
        /\ NumberOfLines("generated_charts") = 0
        /\ pc \notin {"meta", "filter", "plot", "plotted", "crashed"}
        /\ pc = "done" =>
               /\ result = (IF \E k \in 1..Len(table) : Parses(k)
                            THEN "single_only" ELSE "data_unavailable")
               /\ \A o \in TableOutcomes :
                      \A k \in CleanLabels(o) :
                          /\ SingleStudyEntry(o, k)
                          /\ Cardinality({ n \in 1..Len(report) :
                                             report[n] = Line("single_study_analysis", <<o>>, <<>>) }) = 1

\* A run over two outcomes with one cleaned row each has ended.
C28_Witness ==
    /\ pc = "done"
    /\ result = "single_only"
    /\ Len(single_outcomes) = 2

\* ----------------------------------------------------------------- C29
\* The images of the outcomes the current run has pooled.
ImagesOfPooled == { ChartFilename(o) : o \in DOMAIN pooled }

\* C29: the images on disk are those that were there when the run started
\* and images of outcomes the run has pooled: no image is removed, and the
\* images an earlier run left are still returned by get_meta_analysis_images.
C29_ImagesOnlyAdded ==
    /\ Len(firstRun) = 0 => images \subseteq ImagesOfPooled
    /\ Len(firstRun) = 1 =>
           /\ firstRun[1].images \subseteq images
           /\ images \subseteq (firstRun[1].images \cup ImagesOfPooled)
           /\ firstRun[1].images \subseteq get_meta_analysis_images

\* The second run has ended, and get_meta_analysis_images returns the image
\* of an outcome that the run has not pooled and that its report has no
\* chart entry of.
C29_Witness ==
    /\ Len(firstRun) = 1
    /\ pc = "done"
    /\ \E o \in Outcomes :
           /\ ChartFilename(o) \in get_meta_analysis_images
           /\ o \notin DOMAIN pooled
           /\ ~HasEntry("filename", o)

\* ----------------------------------------------------------------- C24
ReturnedMerge == ret # <<>> /\ call[1].fn = "search_merge"

\* The articles of the input lists, in list order and then position order.
RECURSIVE Concatenated(_)
Concatenated(lists) ==
    IF lists = <<>> THEN <<>> ELSE Head(lists) \o Concatenated(Tail(lists))

\* The place of the first article with this PMID among the input articles.
FirstOccurrence(pmid) ==
    LET all == Concatenated(call[1].search_results)
    IN  CHOOSE n \in 1..Len(all) :
            /\ all[n].pmid = pmid
            /\ \A m \in 1..(n - 1) : all[m].pmid # pmid

\* C24: in the list search_merge returns every PMID of the input lists
\* occurs exactly once and no other PMID occurs, the article of a PMID is
\* its first occurrence in the input, and the articles are in the order of
\* their first occurrences.
C24_MergeKeepsFirstOccurrences ==
    ReturnedMerge =>
        LET all == Concatenated(call[1].search_results)
            merged == ret[1]
        IN  /\ \A n \in 1..Len(all) :
                   Cardinality({ k \in 1..Len(merged) : merged[k].pmid = all[n].pmid }) = 1
            /\ \A k \in 1..Len(merged) :
                   /\ \E n \in 1..Len(all) : all[n].pmid = merged[k].pmid
                   /\ merged[k] = all[FirstOccurrence(merged[k].pmid)]
            /\ \A k1, k2 \in 1..Len(merged) :
                   k1 < k2 => FirstOccurrence(merged[k1].pmid) < FirstOccurrence(merged[k2].pmid)

\* Two lists were merged in which the first holds PMID 2 before PMID 1 and
\* the second holds another record of PMID 1.
C24_Witness ==
    /\ ReturnedMerge
    /\ Len(call[1].search_results) = 2
    /\ call[1].search_results[1] = <<PubMedArticle("2", "Title 2"), PubMedArticle("1", "Title 1")>>
    /\ call[1].search_results[2] = <<PubMedArticle("1", "Title 1 (retrieved again)")>>
    /\ Len(ret[1]) = 2

\* ------------------------------------------------------- C22, C23, C25, C26
\* The invocations of download_doi that have returned, and what they
\* returned.
Finished ==
    IF InBatch THEN 1..Len(results) ELSE IF pc = "returned" THEN {1} ELSE {}

ResultOf(n) == IF InBatch THEN results[n] ELSE ret[1]

DoiOf(n) == IF InBatch THEN call[1].dois[n] ELSE call[1].doi

\* The calls of the download methods that invocation n made, in order.
AttemptsOf(n) == SelectSeq(attempts, LAMBDA a : a.n = n)

\* The target file of invocation n (of a DOI that is a string).
FilePathOf(n) ==
    IF InBatch
    THEN _generate_filename(call[1].dois[n],
                            IF Truthy(call[1].titles) THEN Some(call[1].titles[1][n]) ELSE None)
    ELSE IF Truthy(call[1].custom_filename)
         THEN _sanitize_filename(call[1].custom_filename[1]) \o <<".pdf">>
         ELSE _generate_filename(call[1].doi, call[1].title)

\* Invocation n is the last that returned, and nothing has run since: the
\* download directory is as that invocation left it.
JustReturned(n) ==
    /\ pc \in {"batch_loop", "returned"}
    /\ n \in Finished
    /\ \A m \in Finished : m <= n

\* The direct method comes first, and sci-hub only after it has failed, once.
DirectThenSciHub(att) ==
    /\ Len(att) <= 2
    /\ Len(att) >= 1 => att[1].method = "direct"
    /\ Len(att) = 2 => att[1].outcome = "failure" /\ att[2].method = "sci-hub"

\* A direct success is returned as it is, without a call of sci-hub.
DirectSuccessReturned(n) ==
    (Len(AttemptsOf(n)) >= 1 /\ AttemptsOf(n)[1].outcome = "success") =>
        /\ Len(AttemptsOf(n)) = 1
        /\ ResultOf(n).success
        /\ ResultOf(n).source \in {Some("direct_doi"), Some("doi_redirect")}

\* C22 as stated: the direct method is tried first and sci-hub only after
\* its failure; a direct success is returned with source direct_doi or
\* doi_redirect and without a call of sci-hub; after a direct failure
\* sci-hub is called exactly once and, if the file then exists, the result
\* is a success with source sci-hub.
C22_FallbackSucceedsWheneverFileExists ==
    /\ \A n \in 1..MaxDois : DirectThenSciHub(AttemptsOf(n))
    /\ \A n \in Finished :
           /\ DirectSuccessReturned(n)
           /\ (Len(AttemptsOf(n)) >= 1 /\ AttemptsOf(n)[1].outcome = "failure") =>
                  /\ Len(AttemptsOf(n)) = 2
                  /\ (JustReturned(n) /\ Exists(download_dir, FilePathOf(n))) =>
                         /\ ResultOf(n).success
                         /\ ResultOf(n).source = Some("sci-hub")

\* C22, amended: as above, but after a direct failure the result is a
\* success with source sci-hub exactly if scihub_download has returned
\* without raising and the file then exists; if scihub_download raises the
\* result is a failure, whether the file exists or not.
C22_FallbackSucceedsIfSciHubReturnsAndFileExists ==
    /\ \A n \in 1..MaxDois : DirectThenSciHub(AttemptsOf(n))
    /\ \A n \in Finished :
           /\ DirectSuccessReturned(n)
           /\ (Len(AttemptsOf(n)) >= 1 /\ AttemptsOf(n)[1].outcome = "failure") =>
                  /\ Len(AttemptsOf(n)) = 2
                  /\ AttemptsOf(n)[2].outcome = "raised" =>
                         ~ResultOf(n).success /\ ResultOf(n).error_message # None
                  /\ (AttemptsOf(n)[2].outcome # "raised" /\ JustReturned(n)) =>
                         /\ ResultOf(n).success = Exists(download_dir, FilePathOf(n))
                         /\ ResultOf(n).success => ResultOf(n).source = Some("sci-hub")

\* A batch of two DOIs has returned: the first was saved by sci-hub after
\* the direct method failed; for the second the direct method failed and
\* scihub_download raised, with the file there.
C22_Witness ==
    /\ InBatch
    /\ pc = "returned"
    /\ Len(results) = 2
    /\ results[1].source = Some("sci-hub")
    /\ Len(AttemptsOf(1)) = 2
    /\ Len(AttemptsOf(2)) = 2
    /\ AttemptsOf(2)[2].outcome = "raised"
    /\ Exists(download_dir, FilePathOf(2))
    /\ ~results[2].success

\* C23: download_doi does not raise and returns a DownloadResult with the
\* DOI it was called with; a result with success has a file_path and a
\* source; when the direct method has failed and scihub_download has saved
\* no file, the result has success = False, an error_message and no
\* file_path.
C23_FailedMethodsGiveFailure ==
    /\ ~InBatch => pc # "raised"
    /\ \A n \in Finished :
           /\ ResultOf(n).doi = DoiOf(n)
           /\ ResultOf(n).success => ResultOf(n).file_path # None /\ ResultOf(n).source # None
           /\ (/\ Len(AttemptsOf(n)) = 2
               /\ AttemptsOf(n)[1].outcome = "failure"
               /\ AttemptsOf(n)[2].outcome \in {"nothing", "raised"}) =>
                  /\ ~ResultOf(n).success
                  /\ ResultOf(n).error_message # None
                  /\ ResultOf(n).file_path = None

\* C25: download_dois_batch given titles of another length than dois raises
\* ValueError before any download is attempted; otherwise it does not
\* raise and returns one DownloadResult for each DOI, in the order of dois.
C25_MismatchedTitlesRejected ==
    InBatch =>
        IF call[1].titles # None /\ Len(call[1].titles[1]) # Len(call[1].dois)
        THEN /\ pc \in {"download_dois_batch", "raised"}
             /\ attempts = <<>>
             /\ results = <<>>
        ELSE /\ pc # "raised"
             /\ pc = "returned" =>
                    /\ Len(ret[1]) = Len(call[1].dois)
                    /\ \A n \in 1..Len(ret[1]) : ret[1][n].doi = call[1].dois[n]

\* C26: a download_doi that finds its target file and is not to overwrite
\* it returns at once a success with source cached and the path of the
\* file, calls no download method and leaves the download directory as it
\* is; one that is to overwrite goes on to the direct method, which is then
\* called.
C26_CachedFileReturnedUntouched ==
    [][/\ (pc = "download_doi" /\ ~FilenameRaises /\ Exists(download_dir, ActiveFilePath)) =>
              IF ~call[1].overwrite
              THEN /\ download_dir' = download_dir
                   /\ attempts' = attempts
                   /\ AttemptsOf(Invocation) = <<>>
                   /\ pc' \in {"batch_loop", "returned"}
                   /\ (IF InBatch THEN results'[Len(results')] ELSE ret'[1]) =
                          DownloadResult(ActiveDoi, TRUE, Some(ActiveFilePath), None, Some("cached"))
              ELSE pc' = "direct"
       /\ pc = "direct" =>
              /\ Len(attempts') = Len(attempts) + 1
              /\ attempts'[Len(attempts')].method = "direct"
              /\ attempts'[Len(attempts')].n = Invocation]_vars

\* A batch of two DOIs with one target file has returned: the direct method
\* saved the file for the first, and the second was answered from the file.
C26_Witness ==
    /\ InBatch
    /\ pc = "returned"
    /\ Len(results) = 2
    /\ results[1].source = Some("direct_doi")
    /\ results[2].source = Some("cached")
    /\ results[2].file_path = results[1].file_path
    /\ AttemptsOf(2) = <<>>

====
